---- MODULE Spec2Model ----
(***************************************************************************)
(* Server-side RPC dispatch core of ananas (protobuf_rpc/RpcService.cc):   *)
(* the Service registration object with its worker-sharded channel table,  *)
(* and the per-connection ServerChannel pipeline OnData -> OnMessage ->    *)
(* _Invoke -> completion closure -> _OnServDone / OnError.                 *)
(*                                                                         *)
(* The transport (Connection, Application, EventLoop), the closure class   *)
(* and the exception classes live outside RpcService.cc; the model keeps   *)
(* only what RpcService.cc consumes from them: every SendPacket and        *)
(* ActiveClose call made on a connection is recorded, in order, in the     *)
(* per-connection log `wire`.                                              *)
(***************************************************************************)
EXTENDS Integers, Sequences, FiniteSets, TLC

\* ------------------------------------------------------------- bounds
MaxConns == 3
NumOfWorker == 2
MaxMsgs == 2

\* ---------------------------------------------------------- constants
\* "no correlation tracking" value of currentId_
NoCorrelation == -1

Conns == 1..MaxConns
Workers == 0..(NumOfWorker - 1)
\* Request ids a peer may send: two ordinary ids and the one that collides
\* with the "no correlation" value.
KnownIds == {0, 1}
Ids == KnownIds \cup {NoCorrelation}
\* currentId_ has no initializer in the constructor: until first written its
\* value is indeterminate, and the value is drawn when it is first read.
Indeterminate == NoCorrelation - 1

\* name_ of the Service (service->GetDescriptor()->full_name())
FullName == "Calc"
ServiceNames == {"Calc", "Wrong"}
\* the methods FindMethodByName resolves, and the names a peer may send
MethodTable == {"Add"}
MethodNames == {"Add", "Div"}

\* Failure classes as Service::_OnMessage tells them apart.
Throws == {"none", "logic_error", "runtime_error", "unknown"}
\* Failure classes the message-to-message decoder may raise in _Invoke.
DecoderThrows == {"none", "runtime_error", "unknown"}

\* The three exceptions thrown by RpcService.cc itself are of the
\* recoverable class (RpcException.h; spec section 7).
RpcExceptionClass == "logic_error"
\* what() of NoRequestException
NoRequestWhat == "No request"
\* what() of a failure raised by the message-to-message decoder
DecoderWhat == "m2m decode failed"

\* ------------------------------------------------------------- inputs
\* A decoded message. kind: "request" = RpcMessage with a Request arm,
\* "norequest" = RpcMessage without one, "raw" = not an RpcMessage.
\* For a raw message method_name is what the method selector returns for it.
\* fault is the failure class raised by decoder_.m2mDecoder_ in _Invoke.
Requests ==
    [kind : {"request"}, id : Ids, service_name : ServiceNames,
     method_name : MethodNames, fault : DecoderThrows]
NoRequests ==
    [kind : {"norequest"}, id : {0}, service_name : {""},
     method_name : {""}, fault : {"none"}]
RawMessages ==
    [kind : {"raw"}, id : {0}, service_name : {""},
     method_name : MethodNames, fault : DecoderThrows]
Messages == Requests \cup NoRequests \cup RawMessages

NoMsg == [kind |-> "nomsg", id |-> 0, service_name |-> "", method_name |-> "",
          fault |-> "none"]

\* What the byte-to-message decoder makes of the bytes handed to _OnMessage:
\* a complete frame (data advanced past it: len = 1 frame), a partial read
\* (data not advanced), a framing failure derived from std::exception raised
\* before or after data was advanced ("corrupt"), or a failure of a type not
\* derived from std::exception raised by the decoder ("unknown").
Buffers ==
    [data : {"frame"}, len : {1}, msg : Messages]
    \cup [data : {"partial"}, len : {0}, msg : {NoMsg}]
    \cup [data : {"corrupt"}, len : {0, 1}, msg : {NoMsg}]
    \cup [data : {"unknown"}, len : {0}, msg : {NoMsg}]

\* -------------------------------------------------------------- state
VARIABLES
    bindAddr_,        \* Service::bindAddr_.IsValid()
    listening,        \* accept callback registered by Start()
    startRet,         \* last value returned by Start(): "none", "true", "false"
    methodSelector_,  \* Service::methodSelector_ is set
    channels_,        \* Service::channels_: one set of connection ids per shard
    fault,            \* "none", the assertion that aborted the process, or "uncaught"
    cstate,           \* connection: "none", "connected", "disconnected", "destroyed"
    loopId,           \* conn->GetLoop()->Id()
    currentId_,       \* ServerChannel::currentId_
    closures,         \* closures created by _Invoke and not yet run
    wire,             \* SendPacket / ActiveClose calls made on the connection
    dispatched,       \* messages handed to ServerChannel::OnMessage, in order
    last              \* last Service::_OnMessage call: decoder outcome, value returned

vars == <<bindAddr_, listening, startRet, methodSelector_, channels_, fault,
          cstate, loopId, currentId_, closures, wire, dispatched, last>>

svcVars == <<bindAddr_, listening, startRet, methodSelector_>>
chanVars == <<currentId_, closures, wire, dispatched, last>>

\* ------------------------------------------------------------ helpers
\* conn->SendPacket(bytes of a Response frame)
SendPacket(hasId, id, isError, msg) ==
    [call |-> "SendPacket", hasId |-> hasId, id |-> id, error |-> isError,
     msg |-> msg, seq |-> 0]

\* conn->ActiveClose()
ActiveClose ==
    [call |-> "ActiveClose", hasId |-> FALSE, id |-> 0, error |-> FALSE,
     msg |-> "", seq |-> 0]

\* Tag every call of a sequence with the message number that caused it.
Tagged(calls, n) == [i \in 1..Len(calls) |-> [calls[i] EXCEPT !.seq = n]]

Closing(c) == \E i \in 1..Len(wire[c]) : wire[c][i].call = "ActiveClose"

\* The transport hands bytes to the message callback of a connected
\* connection that has not been asked to close.
TransportDelivers(c) == cstate[c] = "connected" /\ ~Closing(c)

\* wconn.lock() succeeds while the Connection object exists.
WeakLock(c) == cstate[c] \in {"connected", "disconnected"}

TotalDispatched == LET S[n \in 0..MaxConns] ==
                           IF n = 0 THEN 0 ELSE S[n - 1] + Len(dispatched[n])
                   IN S[MaxConns]

\* --------------------------------------------------- ServerChannel
\* ServerChannel::OnError: the calls it makes on the connection.
OnError(curId, what) ==
    IF curId # NoCorrelation
    THEN <<SendPacket(TRUE, curId, TRUE, what)>>
    ELSE <<SendPacket(FALSE, 0, TRUE, what)>>

\* Mutant: the response is labelled with the channel's currentId_ instead of
\* the id captured by the closure.
OnServDone_UsesCurrentId(c, id) ==
    IF ~WeakLock(c) THEN <<>>
    ELSE <<SendPacket(TRUE, currentId_[c], FALSE, "")>>

\* Mutant: the response is encoded but never handed to the connection.
OnServDone_NoSend(c, id) == <<>>

\* Mutant: the weak reference is not checked before sending.
OnServDone_NoLock(c, id) == <<SendPacket(TRUE, id, FALSE, "")>>

\* ServerChannel::_OnServDone: the calls it makes on the connection.
_OnServDone(c, id) ==
    IF ~WeakLock(c) THEN <<>>
    ELSE <<SendPacket(TRUE, id, FALSE, "")>>

\* Mutant: a missing method is reported with an unrecoverable-class failure.
Invoke_ThrowsRuntime(methodName, req, curId) ==
    IF methodName \notin MethodTable
    THEN [throw |-> "runtime_error",
          what |-> "Not find method [" \o methodName \o "]",
          closure |-> <<>>]
    ELSE IF req.fault # "none"
    THEN [throw |-> req.fault, what |-> DecoderWhat, closure |-> <<>>]
    ELSE [throw |-> "none", what |-> "", closure |-> <<curId>>]

\* Mutant: the closure is handed out before the method is looked up.
Invoke_ClosureBeforeLookup(methodName, req, curId) ==
    IF methodName \notin MethodTable
    THEN [throw |-> RpcExceptionClass,
          what |-> "Not find method [" \o methodName \o "]",
          closure |-> <<curId>>]
    ELSE IF req.fault # "none"
    THEN [throw |-> req.fault, what |-> DecoderWhat, closure |-> <<>>]
    ELSE [throw |-> "none", what |-> "", closure |-> <<curId>>]

\* ServerChannel::_Invoke: the failure it raises, or the id captured by the
\* closure it hands to CallMethod.
_Invoke(methodName, req, curId) ==
    IF methodName \notin MethodTable
    THEN [throw |-> RpcExceptionClass,
          what |-> "Not find method [" \o methodName \o "]",
          closure |-> <<>>]
    ELSE IF req.fault # "none"
    THEN [throw |-> req.fault, what |-> DecoderWhat, closure |-> <<>>]
    ELSE [throw |-> "none", what |-> "", closure |-> <<curId>>]

\* Mutant: the Request's service name is not compared with FullName().
OnMessage_NoServiceCheck(req, curId, selector) ==
    IF req.kind # "raw"
    THEN IF req.kind = "request"
         THEN [currentId |-> req.id] @@ _Invoke(req.method_name, req, req.id)
         ELSE [currentId |-> curId, throw |-> RpcExceptionClass,
               what |-> NoRequestWhat, closure |-> <<>>]
    ELSE IF ~selector
         THEN [currentId |-> NoCorrelation, throw |-> RpcExceptionClass,
               what |-> "methodSelector not set for [" \o FullName \o "]",
               closure |-> <<>>]
         ELSE [currentId |-> NoCorrelation]
              @@ _Invoke(req.method_name, req, NoCorrelation)

\* Mutant: a raw message leaves currentId_ as the previous message set it.
OnMessage_RawKeepsId(req, curId, selector) ==
    IF req.kind # "raw"
    THEN IF req.kind = "request"
         THEN IF req.service_name # FullName
              THEN [currentId |-> req.id, throw |-> RpcExceptionClass,
                    what |-> "Not find service [" \o req.service_name \o "]",
                    closure |-> <<>>]
              ELSE [currentId |-> req.id] @@ _Invoke(req.method_name, req, req.id)
         ELSE [currentId |-> curId, throw |-> RpcExceptionClass,
               what |-> NoRequestWhat, closure |-> <<>>]
    ELSE IF ~selector
         THEN [currentId |-> curId, throw |-> RpcExceptionClass,
               what |-> "methodSelector not set for [" \o FullName \o "]",
               closure |-> <<>>]
         ELSE [currentId |-> curId] @@ _Invoke(req.method_name, req, curId)

\* ServerChannel::OnMessage: new currentId_, failure raised, closure created.
OnMessage(req, curId, selector) ==
    IF req.kind # "raw"
    THEN IF req.kind = "request"
         THEN IF req.service_name # FullName
              THEN [currentId |-> req.id, throw |-> RpcExceptionClass,
                    what |-> "Not find service [" \o req.service_name \o "]",
                    closure |-> <<>>]
              ELSE [currentId |-> req.id] @@ _Invoke(req.method_name, req, req.id)
         ELSE [currentId |-> curId, throw |-> RpcExceptionClass,
               what |-> NoRequestWhat, closure |-> <<>>]
    ELSE IF ~selector
         THEN [currentId |-> NoCorrelation, throw |-> RpcExceptionClass,
               what |-> "methodSelector not set for [" \o FullName \o "]",
               closure |-> <<>>]
         ELSE [currentId |-> NoCorrelation]
              @@ _Invoke(req.method_name, req, NoCorrelation)

\* ------------------------------------------------------------ Service
\* Mutant: the catch-all handler reports the failure before it closes.
Handlers_UnknownReports(r) ==
    CASE r.throw = "none" -> <<>>
      [] r.throw = "logic_error" -> OnError(r.currentId, r.what)
      [] OTHER -> OnError(r.currentId, r.what) \o <<ActiveClose>>

\* The handlers of the inner try block of Service::_OnMessage.
Handlers(r) ==
    CASE r.throw = "none" -> <<>>
      [] r.throw = "logic_error" -> OnError(r.currentId, r.what)
      [] r.throw = "runtime_error" -> OnError(r.currentId, r.what) \o <<ActiveClose>>
      [] OTHER -> <<ActiveClose>>

\* OnData is called outside the inner try block, and the outer handler takes
\* std::exception only: a failure of any other type raised by the decoder
\* leaves _OnMessage through neither handler. No call is made on the
\* connection and no value is returned.
Uncaught(curId) ==
    [currentId |-> curId, calls |-> <<>>, closure |-> <<>>,
     ret |-> 0, dispatch |-> FALSE, thrown |-> "none", escaped |-> TRUE]

\* Mutant: a decode failure is logged but the connection is left open.
OnMessage_NoCloseOnDecodeFailure(buf, curId, selector) ==
    IF buf.data = "unknown" THEN Uncaught(curId)
    ELSE IF buf.data \in {"corrupt", "partial"}
    THEN [currentId |-> curId, calls |-> <<>>, closure |-> <<>>,
          ret |-> 0, dispatch |-> FALSE, thrown |-> "none", escaped |-> FALSE]
    ELSE LET r == OnMessage(buf.msg, curId, selector) IN
         [currentId |-> r.currentId, thrown |-> r.throw, calls |-> Handlers(r),
          closure |-> r.closure, ret |-> buf.len, dispatch |-> TRUE, escaped |-> FALSE]

\* Mutant: the unrecoverable handler closes before it reports the error.
OnMessage_CloseBeforeError(buf, curId, selector) ==
    IF buf.data = "unknown" THEN Uncaught(curId)
    ELSE IF buf.data = "corrupt"
    THEN [currentId |-> curId, calls |-> <<ActiveClose>>, closure |-> <<>>,
          ret |-> 0, dispatch |-> FALSE, thrown |-> "none", escaped |-> FALSE]
    ELSE IF buf.data = "partial"
    THEN [currentId |-> curId, calls |-> <<>>, closure |-> <<>>,
          ret |-> buf.len, dispatch |-> FALSE, thrown |-> "none", escaped |-> FALSE]
    ELSE LET r == OnMessage(buf.msg, curId, selector) IN
         [currentId |-> r.currentId, thrown |-> r.throw,
          calls |-> IF r.throw = "runtime_error"
                    THEN <<ActiveClose>> \o OnError(r.currentId, r.what)
                    ELSE Handlers(r),
          closure |-> r.closure, ret |-> buf.len, dispatch |-> TRUE, escaped |-> FALSE]

\* Mutant: a partial read resets the channel's correlation id.
OnMessage_PartialResetsId(buf, curId, selector) ==
    IF buf.data = "unknown" THEN Uncaught(curId)
    ELSE IF buf.data = "corrupt"
    THEN [currentId |-> curId, calls |-> <<ActiveClose>>, closure |-> <<>>,
          ret |-> 0, dispatch |-> FALSE, thrown |-> "none", escaped |-> FALSE]
    ELSE IF buf.data = "partial"
    THEN [currentId |-> NoCorrelation, calls |-> <<>>, closure |-> <<>>,
          ret |-> buf.len, dispatch |-> FALSE, thrown |-> "none", escaped |-> FALSE]
    ELSE LET r == OnMessage(buf.msg, curId, selector) IN
         [currentId |-> r.currentId, thrown |-> r.throw, calls |-> Handlers(r),
          closure |-> r.closure, ret |-> buf.len, dispatch |-> TRUE, escaped |-> FALSE]

\* Service::_OnMessage on one buffer: new currentId_, calls made on the
\* connection (in order), closure created, value returned, whether a
\* message was handed to OnMessage, the failure class OnMessage raised, and
\* whether a failure left _OnMessage uncaught.
_OnMessage(buf, curId, selector) ==
    IF buf.data = "unknown" THEN Uncaught(curId)
    ELSE IF buf.data = "corrupt"
    THEN [currentId |-> curId, calls |-> <<ActiveClose>>, closure |-> <<>>,
          ret |-> 0, dispatch |-> FALSE, thrown |-> "none", escaped |-> FALSE]
    ELSE IF buf.data = "partial"
    THEN [currentId |-> curId, calls |-> <<>>, closure |-> <<>>,
          ret |-> buf.len, dispatch |-> FALSE, thrown |-> "none", escaped |-> FALSE]
    ELSE LET r == OnMessage(buf.msg, curId, selector) IN
         [currentId |-> r.currentId,
          thrown |-> r.throw,
          calls |-> Handlers(r),
          closure |-> r.closure,
          ret |-> buf.len,
          dispatch |-> TRUE,
          escaped |-> FALSE]

\* ------------------------------------------------------------ actions
\* Service::SetBindAddr
SetBindAddr ==
    /\ fault = "none" /\ ~bindAddr_ /\ ~listening
    /\ \E valid \in BOOLEAN : bindAddr_' = valid
    /\ UNCHANGED <<listening, startRet, methodSelector_, channels_, fault,
                   cstate, loopId>>
    /\ UNCHANGED chanVars

\* Mutant: the accept callback is registered before the address is checked.
Start_ListensAnyway ==
    /\ fault = "none" /\ ~listening
    /\ listening' = TRUE
    /\ startRet' = IF ~bindAddr_ THEN "false" ELSE "true"
    /\ UNCHANGED <<bindAddr_, methodSelector_, channels_, fault, cstate, loopId>>
    /\ UNCHANGED chanVars

\* Service::Start
Start ==
    /\ fault = "none" /\ ~listening
    /\ IF ~bindAddr_
       THEN startRet' = "false" /\ UNCHANGED listening
       ELSE startRet' = "true" /\ listening' = TRUE
    /\ UNCHANGED <<bindAddr_, methodSelector_, channels_, fault, cstate, loopId>>
    /\ UNCHANGED chanVars

\* Mutant: the table is sized one shard short of the worker count.
OnRegister_OneShardShort ==
    /\ fault = "none"
    /\ channels_' = [w \in 1..(NumOfWorker - 1) |->
                       IF w <= Len(channels_) THEN channels_[w] ELSE {}]
    /\ UNCHANGED <<fault, cstate, loopId>>
    /\ UNCHANGED svcVars
    /\ UNCHANGED chanVars

\* Service::OnRegister: channels_.resize(NumOfWorker)
OnRegister ==
    /\ fault = "none"
    /\ channels_' = [w \in 1..NumOfWorker |->
                       IF w <= Len(channels_) THEN channels_[w] ELSE {}]
    /\ UNCHANGED <<fault, cstate, loopId>>
    /\ UNCHANGED svcVars
    /\ UNCHANGED chanVars

\* Service::SetMethodSelector
SetMethodSelector ==
    /\ fault = "none" /\ ~listening /\ ~methodSelector_
    /\ methodSelector_' = TRUE
    /\ UNCHANGED <<bindAddr_, listening, startRet, channels_, fault, cstate, loopId>>
    /\ UNCHANGED chanVars

\* The id the transport gives the next accepted connection.
NextUniqueId == Cardinality({c \in Conns : cstate[c] # "none"}) + 1

\* Mutant: every worker inserts into the first shard.
OnNewConnection_FirstShard(c, w) ==
    /\ fault = "none" /\ listening
    /\ c = NextUniqueId /\ c \in Conns
    /\ IF ~(w < Len(channels_))
       THEN /\ fault' = "assert:63"
            /\ UNCHANGED <<channels_, cstate, loopId, currentId_>>
       ELSE /\ channels_' = [channels_ EXCEPT ![1] = @ \cup {c}]
            /\ cstate' = [cstate EXCEPT ![c] = "connected"]
            /\ loopId' = [loopId EXCEPT ![c] = w]
            /\ currentId_' = [currentId_ EXCEPT ![c] = Indeterminate]
            /\ UNCHANGED fault
    /\ UNCHANGED svcVars
    /\ UNCHANGED <<closures, wire, dispatched, last>>

\* Service::OnNewConnection, run by the transport's accept callback on the
\* worker w that owns the new connection
OnNewConnection(c, w) ==
    /\ fault = "none" /\ listening
    /\ c = NextUniqueId /\ c \in Conns
    /\ IF ~(w < Len(channels_))
       THEN /\ fault' = "assert:63"
            /\ UNCHANGED <<channels_, cstate, loopId, currentId_>>
       ELSE IF c \in channels_[w + 1]
       THEN /\ fault' = "assert:67"
            /\ UNCHANGED <<channels_, cstate, loopId, currentId_>>
       ELSE /\ channels_' = [channels_ EXCEPT ![w + 1] = @ \cup {c}]
            /\ cstate' = [cstate EXCEPT ![c] = "connected"]
            /\ loopId' = [loopId EXCEPT ![c] = w]
            /\ currentId_' = [currentId_ EXCEPT ![c] = Indeterminate]
            /\ UNCHANGED fault
    /\ UNCHANGED svcVars
    /\ UNCHANGED <<closures, wire, dispatched, last>>

\* Mutant: the entry is erased from the first shard, whatever the owner.
OnDisconnect_FirstShard(c) ==
    /\ fault = "none" /\ cstate[c] = "connected"
    /\ channels_' = [channels_ EXCEPT ![1] = @ \ {c}]
    /\ cstate' = [cstate EXCEPT ![c] = "disconnected"]
    /\ UNCHANGED <<fault, loopId>>
    /\ UNCHANGED svcVars
    /\ UNCHANGED chanVars

\* Service::_OnDisconnect, run by the transport when the connection closes
_OnDisconnect(c) ==
    /\ fault = "none" /\ cstate[c] = "connected"
    /\ IF c \notin channels_[loopId[c] + 1]
       THEN /\ fault' = "assert:140"
            /\ UNCHANGED <<channels_, cstate>>
       ELSE /\ channels_' = [channels_ EXCEPT ![loopId[c] + 1] = @ \ {c}]
            /\ cstate' = [cstate EXCEPT ![c] = "disconnected"]
            /\ UNCHANGED fault
    /\ UNCHANGED loopId
    /\ UNCHANGED svcVars
    /\ UNCHANGED chanVars

\* The transport drops its last reference to a disconnected connection.
Destroy(c) ==
    /\ fault = "none" /\ cstate[c] = "disconnected"
    /\ cstate' = [cstate EXCEPT ![c] = "destroyed"]
    /\ UNCHANGED <<channels_, fault, loopId>>
    /\ UNCHANGED svcVars
    /\ UNCHANGED chanVars

\* The transport's message callback: Service::_OnMessage(conn, data, len).
\* A failure that leaves _OnMessage unwinds into the event loop that called
\* it; no handler is installed there and the process is terminated.
Receive(c) ==
    /\ fault = "none" /\ TransportDelivers(c)
    /\ \E buf \in Buffers :
         /\ buf.data = "frame" => TotalDispatched < MaxMsgs
         /\ \E cur \in (IF currentId_[c] = Indeterminate /\ buf.msg.kind = "norequest"
                        THEN Ids ELSE {currentId_[c]}) :
            LET r == _OnMessage(buf, cur, methodSelector_)
                n == Len(dispatched[c]) + 1
            IN /\ currentId_' = [currentId_ EXCEPT ![c] = r.currentId]
               /\ wire' = [wire EXCEPT ![c] = @ \o Tagged(r.calls, n)]
               /\ closures' = [closures EXCEPT ![c] =
                    @ \cup {[seq |-> n, id |-> r.closure[i]] :
                              i \in 1..Len(r.closure)}]
               /\ dispatched' = [dispatched EXCEPT ![c] =
                    IF r.dispatch
                    THEN Append(@, [kind |-> buf.msg.kind, id |-> buf.msg.id,
                                    service_name |-> buf.msg.service_name,
                                    method_name |-> buf.msg.method_name,
                                    thrown |-> r.thrown])
                    ELSE @]
               /\ last' = [last EXCEPT ![c] =
                    [data |-> buf.data, len |-> buf.len, ret |-> r.ret,
                     escaped |-> r.escaped]]
               /\ fault' = IF r.escaped THEN "uncaught" ELSE fault
    /\ UNCHANGED <<channels_, cstate, loopId>>
    /\ UNCHANGED svcVars

\* Mutant: the response is queued ahead of the calls already made.
Done_Prepends(c) ==
    /\ fault = "none"
    /\ \E h \in closures[c] :
         /\ closures' = [closures EXCEPT ![c] = @ \ {h}]
         /\ wire' = [wire EXCEPT ![c] =
                       Tagged(_OnServDone(c, h.id), h.seq) \o @]
    /\ UNCHANGED <<channels_, fault, cstate, loopId, currentId_, dispatched, last>>
    /\ UNCHANGED svcVars

\* The invoked method runs its closure: Closure::Run -> _OnServDone
Done(c) ==
    /\ fault = "none"
    /\ \E h \in closures[c] :
         /\ closures' = [closures EXCEPT ![c] = @ \ {h}]
         /\ wire' = [wire EXCEPT ![c] =
                       @ \o Tagged(_OnServDone(c, h.id), h.seq)]
    /\ UNCHANGED <<channels_, fault, cstate, loopId, currentId_, dispatched, last>>
    /\ UNCHANGED svcVars

\* ------------------------------------------------------ specification
Init ==
    /\ bindAddr_ = FALSE
    /\ listening = FALSE
    /\ startRet = "none"
    /\ methodSelector_ = FALSE
    /\ channels_ = <<>>
    /\ fault = "none"
    /\ cstate = [c \in Conns |-> "none"]
    /\ loopId = [c \in Conns |-> 0]
    /\ currentId_ = [c \in Conns |-> Indeterminate]
    /\ closures = [c \in Conns |-> {}]
    /\ wire = [c \in Conns |-> <<>>]
    /\ dispatched = [c \in Conns |-> <<>>]
    /\ last = [c \in Conns |-> [data |-> "none", len |-> 0, ret |-> 0,
                                escaped |-> FALSE]]

Next ==
    \/ SetBindAddr
    \/ Start
    \/ OnRegister
    \/ SetMethodSelector
    \/ \E c \in Conns, w \in Workers : OnNewConnection(c, w)
    \/ \E c \in Conns : _OnDisconnect(c)
    \/ \E c \in Conns : Destroy(c)
    \/ \E c \in Conns : Receive(c)
    \/ \E c \in Conns : Done(c)

Spec == Init /\ [][Next]_vars

\* Channels share no state, and neither _OnMessage nor _OnServDone reads the
\* loop id: the pipeline of one connection is studied with a transport that
\* accepts a single client, on its first worker.
ChanNext ==
    \/ SetBindAddr
    \/ Start
    \/ OnRegister
    \/ SetMethodSelector
    \/ NextUniqueId = 1 /\ OnNewConnection(NextUniqueId, 0)
    \/ \E c \in Conns : _OnDisconnect(c)
    \/ \E c \in Conns : Destroy(c)
    \/ \E c \in Conns : Receive(c)
    \/ \E c \in Conns : Done(c)

ChanSpec == Init /\ [][ChanNext]_vars

\* Every closure handed to CallMethod is eventually run by the method.
FairChanSpec == ChanSpec /\ \A c \in Conns : WF_vars(Done(c))

\* The registry is studied with clients that connect and disconnect without
\* sending bytes: _OnMessage and _OnServDone never touch channels_.
RegNext ==
    \/ SetBindAddr
    \/ Start
    \/ OnRegister
    \/ SetMethodSelector
    \/ \E c \in Conns, w \in Workers : OnNewConnection(c, w)
    \/ \E c \in Conns : _OnDisconnect(c)
    \/ \E c \in Conns : Destroy(c)

RegSpec == Init /\ [][RegNext]_vars

TypeOK ==
    /\ bindAddr_ \in BOOLEAN
    /\ listening \in BOOLEAN
    /\ startRet \in {"none", "true", "false"}
    /\ methodSelector_ \in BOOLEAN
    /\ Len(channels_) \in {0, NumOfWorker}
    /\ \A c \in Conns : currentId_[c] \in Ids \cup {Indeterminate}
    /\ \A c \in Conns : last[c].ret \in {0, 1}
    /\ \A c \in Conns : last[c].escaped \in BOOLEAN
    /\ fault \in {"none", "assert:63", "assert:67", "assert:140", "uncaught"}

\* ------------------------------------------------------------- claims
IsSend(e) == e.call = "SendPacket"
IsClose(e) == e.call = "ActiveClose"

\* The calls made on connection c on behalf of its n-th message, in order.
CallsOf(c, n) == SelectSeq(wire[c], LAMBDA e : e.seq = n)

\* ActiveClose was requested, the transport has closed the connection, or
\* the process has been terminated and all its connections with it.
Closed(c) ==
    \/ Closing(c)
    \/ cstate[c] \in {"disconnected", "destroyed"}
    \/ fault # "none"

\* The n-th message of c is a Request carrying id k.
RequestAt(c, n, k) ==
    /\ n <= Len(dispatched[c])
    /\ dispatched[c][n].kind = "request"
    /\ dispatched[c][n].id = k

\* The n-th message of c was invoked: OnMessage raised nothing.
InvokedAt(c, n) == n <= Len(dispatched[c]) /\ dispatched[c][n].thrown = "none"

\* The id _Invoke captures for message m.
RequestId(m) == IF m.kind = "request" THEN m.id ELSE NoCorrelation

WrongService(m) == m.kind = "request" /\ m.service_name # FullName

NoSuchMethod(m) ==
    /\ m.kind = "request"
    /\ m.service_name = FullName
    /\ m.method_name \notin MethodTable

ErrorResponse(hasId, id, msg, n) ==
    [call |-> "SendPacket", hasId |-> hasId, id |-> id, error |-> TRUE,
     msg |-> msg, seq |-> n]

\* C1: on a channel whose first message wrote currentId_, when exactly one
\* Request with id k has been received, at most one response (success or
\* error) labelled k has been sent.
C1_OneResponsePerRequestId ==
    \A c \in Conns, k \in KnownIds :
        ( /\ Len(dispatched[c]) >= 1
          /\ dispatched[c][1].kind # "norequest"
          /\ Cardinality({n \in DOMAIN dispatched[c] : RequestAt(c, n, k)}) = 1 )
        => Cardinality({i \in DOMAIN wire[c] :
                IsSend(wire[c][i]) /\ wire[c][i].hasId /\ wire[c][i].id = k}) <= 1

\* C2: every response sent by _OnServDone carries the id of the message whose
\* invocation created the closure (the Request's id, or -1 for a raw message),
\* whatever currentId_ has become since.
C2_ResponseCarriesInvokedId ==
    \A c \in Conns : \A i \in DOMAIN wire[c] :
        (IsSend(wire[c][i]) /\ ~wire[c][i].error)
        => /\ wire[c][i].seq \in DOMAIN dispatched[c]
           /\ wire[c][i].hasId
           /\ wire[c][i].id = RequestId(dispatched[c][wire[c][i].seq])

\* Two requests with distinct ids were invoked back-to-back, the second
\* completed first, and currentId_ differs from the id of the response sent last.
C2_Witness ==
    \E c \in Conns :
        /\ Len(wire[c]) = 2
        /\ IsSend(wire[c][1]) /\ ~wire[c][1].error /\ wire[c][1].seq = 2
        /\ IsSend(wire[c][2]) /\ ~wire[c][2].error /\ wire[c][2].seq = 1
        /\ wire[c][1].id # wire[c][2].id
        /\ currentId_[c] # wire[c][2].id

\* The n-th message of some connection is a Request with a known id that has
\* not been answered by a response labelled with that id, on a connection
\* that is not closed.
Pending(n) ==
    \E c \in Conns :
        /\ n <= Len(dispatched[c])
        /\ dispatched[c][n].kind = "request"
        /\ dispatched[c][n].id \in KnownIds
        /\ ~Closed(c)
        /\ ~\E i \in DOMAIN wire[c] :
               /\ IsSend(wire[c][i]) /\ wire[c][i].seq = n
               /\ wire[c][i].hasId /\ wire[c][i].id = dispatched[c][n].id

\* Some Request with a known id is pending.
AnyPending == \E n \in 1..MaxMsgs : Pending(n)

\* C3: when closures are eventually run, every Request with a known id handed
\* to OnMessage is eventually answered by a response labelled with its id, or
\* its connection is closed. Being answered and being closed are both stable,
\* so a request stops pending once and for all; every request does so exactly
\* when each state with a pending request is followed by one with none.
C3_AnsweredOrClosed == AnyPending ~> ~AnyPending

\* A valid request was answered with a success response on an open connection.
C3_Witness ==
    \E c \in Conns, n \in 1..MaxMsgs, k \in KnownIds :
        /\ RequestAt(c, n, k) /\ InvokedAt(c, n)
        /\ ~Closed(c)
        /\ \E i \in DOMAIN wire[c] :
               /\ IsSend(wire[c][i]) /\ ~wire[c][i].error
               /\ wire[c][i].seq = n /\ wire[c][i].hasId /\ wire[c][i].id = k

\* C4: shard w holds an entry for connection c exactly when c has been
\* accepted, has not been disconnected, and w is c's owning worker.
C4_EntryOnOwningShardOnly ==
    \A c \in Conns, w \in Workers :
        (w < Len(channels_) /\ c \in channels_[w + 1])
        <=> (cstate[c] = "connected" /\ loopId[c] = w)

\* Two connections of different workers, one disconnected, one still live.
C4_Witness ==
    \E c, d \in Conns :
        /\ cstate[c] = "connected" /\ cstate[d] = "disconnected"
        /\ loopId[c] # loopId[d]

\* C5: while the connection no longer exists, no step (in particular no
\* closure being run) sends on it or changes its channel or connection state.
C5_NoEffectAfterTeardown ==
    [][\A c \in Conns :
          ~WeakLock(c) /\ cstate[c] = "destroyed"
          => /\ wire'[c] = wire[c]
             /\ currentId_'[c] = currentId_[c]
             /\ dispatched'[c] = dispatched[c]
             /\ last'[c] = last[c]
             /\ cstate'[c] = cstate[c]
             /\ channels_' = channels_]_vars

\* Two requests were in flight at teardown and both closures have run since:
\* nothing was sent.
C5_Witness ==
    \E c \in Conns :
        /\ cstate[c] = "destroyed"
        /\ Len(dispatched[c]) = 2 /\ InvokedAt(c, 1) /\ InvokedAt(c, 2)
        /\ closures[c] = {}
        /\ wire[c] = <<>>

\* C6: no SendPacket follows an ActiveClose on the same connection.
C6_NoSendAfterActiveClose ==
    \A c \in Conns : \A i, j \in DOMAIN wire[c] :
        (i < j /\ IsClose(wire[c][i])) => ~IsSend(wire[c][j])

\* C7 as stated: a Request naming another service causes exactly one call on
\* the connection, an error response with the Request's own id and the text
\* "Not find service [<name>]".
C7_Original ==
    \A c \in Conns : \A n \in DOMAIN dispatched[c] :
        WrongService(dispatched[c][n])
        => CallsOf(c, n) =
             <<ErrorResponse(TRUE, dispatched[c][n].id,
                 "Not find service [" \o dispatched[c][n].service_name \o "]", n)>>

\* C7: a Request naming another service causes exactly one call on the
\* connection, an error response with the text "Not find service [<name>]"
\* that carries the Request's id when the id is not -1 and no id when it is;
\* no ActiveClose is made and no closure is created for it.
C7_Amended ==
    \A c \in Conns : \A n \in DOMAIN dispatched[c] :
        WrongService(dispatched[c][n])
        => /\ CallsOf(c, n) =
                <<ErrorResponse(dispatched[c][n].id # NoCorrelation,
                    IF dispatched[c][n].id # NoCorrelation
                    THEN dispatched[c][n].id ELSE 0,
                    "Not find service [" \o dispatched[c][n].service_name \o "]", n)>>
           /\ \A h \in closures[c] : h.seq # n

\* A wrong-service request with a known id was answered with an error, and a
\* later valid request on the same connection was invoked and answered.
C7_Witness ==
    \E c \in Conns :
        /\ Len(dispatched[c]) = 2
        /\ WrongService(dispatched[c][1]) /\ dispatched[c][1].id \in KnownIds
        /\ InvokedAt(c, 2)
        /\ Len(wire[c]) = 2
        /\ IsSend(wire[c][1]) /\ wire[c][1].error /\ wire[c][1].seq = 1
        /\ IsSend(wire[c][2]) /\ ~wire[c][2].error /\ wire[c][2].seq = 2

\* C8 as stated: a Request for a method absent from the table causes exactly
\* one call on the connection, an error response with the Request's own id
\* and the text "Not find method [<name>]".
C8_Original ==
    \A c \in Conns : \A n \in DOMAIN dispatched[c] :
        NoSuchMethod(dispatched[c][n])
        => CallsOf(c, n) =
             <<ErrorResponse(TRUE, dispatched[c][n].id,
                 "Not find method [" \o dispatched[c][n].method_name \o "]", n)>>

\* C8: a Request for a method absent from the table causes exactly one call
\* on the connection, an error response with the text "Not find method
\* [<name>]" that carries the Request's id when the id is not -1 and no id
\* when it is; the connection is not closed for it.
C8_Amended ==
    \A c \in Conns : \A n \in DOMAIN dispatched[c] :
        NoSuchMethod(dispatched[c][n])
        => /\ CallsOf(c, n) =
                <<ErrorResponse(dispatched[c][n].id # NoCorrelation,
                    IF dispatched[c][n].id # NoCorrelation
                    THEN dispatched[c][n].id ELSE 0,
                    "Not find method [" \o dispatched[c][n].method_name \o "]", n)>>
           /\ \A h \in closures[c] : h.seq # n

\* A request for a missing method with a known id was answered with an error
\* and the connection is still open.
C8_Witness ==
    \E c \in Conns : \E n \in DOMAIN dispatched[c] :
        /\ NoSuchMethod(dispatched[c][n]) /\ dispatched[c][n].id \in KnownIds
        /\ Len(CallsOf(c, n)) = 1
        /\ TransportDelivers(c)

\* The last _OnMessage call on c ended in a decode failure.
DecodeFailed(c) == last[c].data = "corrupt"

C10_ErrorThenClose ==
    \A c \in Conns : \A n \in DOMAIN dispatched[c] :
        dispatched[c][n].thrown = "runtime_error"
        => /\ Len(CallsOf(c, n)) = 2
           /\ IsSend(CallsOf(c, n)[1]) /\ CallsOf(c, n)[1].error
           /\ CallsOf(c, n)[1].msg = DecoderWhat
           /\ IsClose(CallsOf(c, n)[2])

\* An unrecoverable failure was raised on a connection that had answered an
\* earlier request.
C10_Witness ==
    \E c \in Conns :
        /\ Len(dispatched[c]) = 2
        /\ dispatched[c][2].thrown = "runtime_error"
        /\ Len(wire[c]) = 3
        /\ IsClose(wire[c][3])

\* C11: a message whose handling raised a failure that is neither of the
\* recoverable nor of the unrecoverable class caused exactly one call on the
\* connection, ActiveClose: no response is sent for it, then or later.
C11_UnknownClosesSilently ==
    \A c \in Conns : \A n \in DOMAIN dispatched[c] :
        dispatched[c][n].thrown = "unknown"
        => /\ CallsOf(c, n) = Tagged(<<ActiveClose>>, n)
           /\ \A h \in closures[c] : h.seq # n

\* An unknown failure was raised on a connection that had answered an
\* earlier request: the answer is followed by the close and nothing else.
C11_Witness ==
    \E c \in Conns :
        /\ Len(dispatched[c]) = 2
        /\ dispatched[c][2].thrown = "unknown"
        /\ Len(wire[c]) = 2
        /\ IsSend(wire[c][1]) /\ wire[c][1].seq = 1
        /\ IsClose(wire[c][2]) /\ wire[c][2].seq = 2

\* C12: no _OnMessage call is left by a failure: whatever OnData, OnMessage
\* or _Invoke raised, the call returned a byte count, and it sent an error
\* response or asked for the connection to be closed.
C12_NoFailureEscapes ==
    \A c \in Conns :
        /\ ~last[c].escaped
        /\ last[c].data \in {"corrupt", "unknown"} => Closing(c)
        /\ \A n \in DOMAIN dispatched[c] :
               dispatched[c][n].thrown # "none" => Len(CallsOf(c, n)) >= 1

\* C13: Start returns true exactly when it registered the accept callback,
\* it registers it only with a valid bind address and returns false without
\* registering when there is none; connections are accepted only through a
\* registered callback.
C13_StartNeedsBindAddr ==
    /\ [](listening <=> startRet = "true")
    /\ [](listening => bindAddr_)
    /\ [][/\ startRet' # startRet
             => IF bindAddr_
                THEN startRet' = "true" /\ listening'
                ELSE startRet' = "false" /\ ~listening'
          /\ \A c \in Conns :
                (cstate[c] = "none" /\ cstate'[c] # "none")
                => listening /\ startRet = "true"]_vars

\* Start was called without a valid bind address: it returned false, nothing
\* listens and no connection exists, although the shards are in place.
C13_Witness ==
    /\ startRet = "false" /\ ~bindAddr_ /\ ~listening
    /\ Len(channels_) = NumOfWorker
    /\ \A c \in Conns : cstate[c] = "none"

\* C14: after a Request with a known id k, a following message that carries
\* no id of its own (an envelope without a Request arm, or a raw message)
\* produces no error response that carries an id.
C14_ErrorCarriesOwnId ==
    \A c \in Conns : \A n \in DOMAIN dispatched[c] :
        ( /\ n > 1
          /\ dispatched[c][n - 1].kind = "request"
          /\ dispatched[c][n - 1].id \in KnownIds
          /\ dispatched[c][n].kind \in {"norequest", "raw"} )
        => \A i \in DOMAIN wire[c] :
               (wire[c][i].seq = n /\ IsSend(wire[c][i]) /\ wire[c][i].error)
               => ~wire[c][i].hasId

\* The success response of the closure h.
ResponseOf(h) == [SendPacket(TRUE, h.id, FALSE, "") EXCEPT !.seq = h.seq]

\* C15: a closure that runs while the Connection object exists sends its
\* response at that moment, after every call already made on the connection:
\* responses go out in completion order, whatever the order of the requests.
C15_SentInCompletionOrder ==
    [][\A c \in Conns : \A h \in closures[c] :
          (closures'[c] = closures[c] \ {h} /\ WeakLock(c))
          => wire'[c] = Append(wire[c], ResponseOf(h))]_vars

\* A was invoked before B, B completed first: B's response, then A's, both
\* on a connection that is still connected.
C15_Witness ==
    \E c \in Conns :
        /\ cstate[c] = "connected"
        /\ Len(dispatched[c]) = 2 /\ InvokedAt(c, 1) /\ InvokedAt(c, 2)
        /\ closures[c] = {}
        /\ Len(wire[c]) = 2
        /\ wire[c][1].seq = 2 /\ wire[c][2].seq = 1
        /\ \A i \in 1..2 : IsSend(wire[c][i]) /\ ~wire[c][i].error

\* C16: a raw message sets currentId_ to -1. Without a method selector it
\* causes exactly one call, an error response without id, and no closure;
\* with a selector the selected name is looked up in the method table, and
\* an invocation captures -1 as its id.
C16_RawMessage ==
    \A c \in Conns : \A n \in DOMAIN dispatched[c] :
        dispatched[c][n].kind = "raw"
        => /\ n = Len(dispatched[c]) => currentId_[c] = NoCorrelation
           /\ ~methodSelector_
              => /\ dispatched[c][n].thrown = RpcExceptionClass
                 /\ CallsOf(c, n) =
                      <<ErrorResponse(FALSE, 0,
                          "methodSelector not set for [" \o FullName \o "]", n)>>
                 /\ \A h \in closures[c] : h.seq # n
           /\ (methodSelector_ /\ dispatched[c][n].method_name \notin MethodTable)
              => CallsOf(c, n) =
                   <<ErrorResponse(FALSE, 0,
                       "Not find method [" \o dispatched[c][n].method_name \o "]", n)>>
           /\ (methodSelector_ /\ InvokedAt(c, n))
              => /\ dispatched[c][n].method_name \in MethodTable
                 /\ \A h \in closures[c] : h.seq = n => h.id = NoCorrelation
                 /\ \A i \in DOMAIN wire[c] :
                        wire[c][i].seq = n
                        => wire[c][i].hasId /\ wire[c][i].id = NoCorrelation

\* A raw message arrived without a selector after a request with a known id
\* had been invoked: the error carries no id and the connection is open.
C16_Witness ==
    \E c \in Conns :
        /\ ~methodSelector_
        /\ Len(dispatched[c]) = 2
        /\ dispatched[c][1].kind = "request" /\ dispatched[c][1].id \in KnownIds
        /\ InvokedAt(c, 1)
        /\ dispatched[c][2].kind = "raw"
        /\ Len(CallsOf(c, 2)) = 1 /\ ~CallsOf(c, 2)[1].hasId
        /\ TransportDelivers(c)

\* C17: an assertion of the registry fails only when a connection is accepted
\* before OnRegister has sized the table; an id enters a shard only at its
\* accept and leaves it only at its disconnect, and a connection is accepted
\* and disconnected once.
C17_RegistryAssertionsHold ==
    /\ [](fault \notin {"assert:67", "assert:140"})
    /\ [](fault = "assert:63" => Len(channels_) = 0)
    /\ [][\A c \in Conns :
             /\ ( /\ ~\E w \in DOMAIN channels_ : c \in channels_[w]
                  /\ \E w \in DOMAIN channels_' : c \in channels_'[w] )
                => cstate[c] = "none" /\ cstate'[c] = "connected"
             /\ ( /\ \E w \in DOMAIN channels_ : c \in channels_[w]
                  /\ ~\E w \in DOMAIN channels_' : c \in channels_'[w] )
                => cstate[c] = "connected" /\ cstate'[c] = "disconnected"
             /\ cstate'[c] # cstate[c]
                => <<cstate[c], cstate'[c]>> \in
                     {<<"none", "connected">>, <<"connected", "disconnected">>,
                      <<"disconnected", "destroyed">>}
             /\ cstate'[c] # cstate[c] /\ cstate'[c] \in {"connected", "disconnected"}
                => (\E w \in DOMAIN channels_ : c \in channels_[w])
                   # (\E w \in DOMAIN channels_' : c \in channels_'[w])]_vars

\* Two connections of one worker were inserted, one of them was removed and
\* destroyed, and no assertion has failed.
C17_Witness ==
    \E c, d \in Conns :
        /\ fault = "none"
        /\ loopId[c] = loopId[d]
        /\ cstate[c] = "destroyed" /\ cstate[d] = "connected"
        /\ channels_[loopId[d] + 1] = {d}

\* C18: an accept or a disconnect of a connection owned by worker w changes
\* the mapping of shard w by that connection's entry and leaves every other
\* shard's mapping as it was; no other step changes a mapping.
C18_ShardIsolation ==
    [][Len(channels_) = NumOfWorker
       => /\ Len(channels_') = NumOfWorker
          /\ \A c \in Conns : \A w \in Workers :
               /\ (cstate[c] = "none" /\ cstate'[c] = "connected")
                  => channels_'[w + 1] =
                       IF w = loopId'[c] THEN channels_[w + 1] \cup {c}
                                         ELSE channels_[w + 1]
               /\ (cstate[c] = "connected" /\ cstate'[c] = "disconnected")
                  => channels_'[w + 1] =
                       IF w = loopId[c] THEN channels_[w + 1] \ {c}
                                        ELSE channels_[w + 1]
          /\ cstate' = cstate => channels_' = channels_]_vars

\* Connections of two workers are live, each worker's shard holds its own
\* connections only, and a disconnect has taken place.
C18_Witness ==
    \E c, d, e \in Conns :
        /\ cstate[c] = "connected" /\ cstate[d] = "connected"
        /\ cstate[e] = "disconnected"
        /\ loopId[c] # loopId[d]
        /\ channels_[loopId[c] + 1] = {c}
        /\ channels_[loopId[d] + 1] = {d}

\* C19: an _OnMessage call that ends in a partial read returns 0 bytes
\* consumed and changes nothing else of the channel: no call on the
\* connection, no message dispatched, no closure, currentId_ as before. Any
\* _OnMessage call dispatches at most one message and creates at most one
\* closure.
C19_PartialReadIsInert ==
    [][\A c \in Conns :
          /\ (last'[c].data = "partial" /\ last'[c] # last[c])
             => /\ last'[c].ret = 0 /\ ~last'[c].escaped
                /\ wire'[c] = wire[c]
                /\ dispatched'[c] = dispatched[c]
                /\ closures'[c] = closures[c]
                /\ currentId_'[c] = currentId_[c]
                /\ cstate'[c] = cstate[c]
          /\ Len(dispatched'[c]) <= Len(dispatched[c]) + 1
          /\ Cardinality(closures'[c] \ closures[c]) <= 1]_vars

\* A partial read arrived while a request with a known id was in flight.
C19_Witness ==
    \E c \in Conns :
        /\ last[c].data = "partial"
        /\ Len(dispatched[c]) = 1 /\ InvokedAt(c, 1)
        /\ currentId_[c] \in KnownIds
        /\ closures[c] # {}
        /\ wire[c] = <<>>
        /\ TransportDelivers(c)

\* Message m fails before a method is invoked: wrong service, no Request arm,
\* no method selector, or a method name absent from the table.
FailsBeforeInvocation(m) ==
    \/ WrongService(m)
    \/ NoSuchMethod(m)
    \/ m.kind = "norequest"
    \/ m.kind = "raw" /\ ~methodSelector_
    \/ m.kind = "raw" /\ methodSelector_ /\ m.method_name \notin MethodTable

\* C20: a message that fails before invocation has no closure and has caused
\* exactly one call on the connection, an error response; a message that is
\* invoked creates exactly one closure, and a message that is not invoked
\* creates none.
C20_ClosureOnlyOnInvocation ==
    /\ [](\A c \in Conns : \A n \in DOMAIN dispatched[c] :
            FailsBeforeInvocation(dispatched[c][n])
            => /\ \A h \in closures[c] : h.seq # n
               /\ Len(CallsOf(c, n)) = 1
               /\ IsSend(CallsOf(c, n)[1]) /\ CallsOf(c, n)[1].error)
    /\ [][\A c \in Conns :
             Len(dispatched'[c]) = Len(dispatched[c]) + 1
             => IF dispatched'[c][Len(dispatched'[c])].thrown = "none"
                THEN /\ closures[c] \subseteq closures'[c]
                     /\ Cardinality(closures'[c] \ closures[c]) = 1
                     /\ \A h \in closures'[c] \ closures[c] :
                            h.seq = Len(dispatched'[c])
                ELSE closures'[c] = closures[c]]_vars

\* A request for a missing method was answered with an error, an invoked
\* request's closure is still waiting, and no closure belongs to the failed one.
C20_Witness ==
    \E c \in Conns :
        /\ Len(dispatched[c]) = 2
        /\ NoSuchMethod(dispatched[c][1])
        /\ InvokedAt(c, 2)
        /\ Cardinality(closures[c]) = 1
        /\ Len(wire[c]) = 1 /\ wire[c][1].error /\ wire[c][1].seq = 1
====
